---- MODULE Spec2Model ----
(***************************************************************************)
(* Model of kardianos/imapdown, package list: Worker.List, Worker.Iter and *)
(* fn (src/unnamed/part_000).  The foreground goroutine of List/Iter is a  *)
(* program counter; each background goroutine (the listing and the two     *)
(* streaming fetches) is a producer that pushes into a bounded channel,    *)
(* closes it, and then offers its terminal result on an unbuffered channel.*)
(* The IMAP server, the file system and the external context are the       *)
(* environment.                                                            *)
(***************************************************************************)
EXTENDS Integers, Sequences, FiniteSets, TLC

\* ---------------------------------------------------------------- bounds
\* Total number of messages held by the server over all mailboxes.
MaxMsgs == 2
\* Number of consecutive runs of List against the same store.
MaxRuns == 2

\* ------------------------------------------------------ program constants
\* const keySize = 32
keySize == 32
\* capacity of ch and msgC: make(chan ..., 10)
ChanCap == 10

\* ------------------------------------------------------------ input sets
\* Message ids as byte strings: "" and "a".
MsgIds == {<<>>, <<97>>}
\* Mailbox names the server may list.
MailboxNames == {"A", "B"}
\* Folder recorded in files that earlier runs left in the store.
OldFolder == "Archive"

\* ------------------------------------------------------- key derivation
\* base32.StdEncoding alphabet (RFC 4648).
Base32Alphabet ==
  << "A","B","C","D","E","F","G","H","I","J","K","L","M","N","O","P",
     "Q","R","S","T","U","V","W","X","Y","Z","2","3","4","5","6","7" >>

Pow2(n) == IF n = 0 THEN 1 ELSE IF n = 1 THEN 2 ELSE IF n = 2 THEN 4
           ELSE IF n = 3 THEN 8 ELSE IF n = 4 THEN 16 ELSE IF n = 5 THEN 32
           ELSE IF n = 6 THEN 64 ELSE IF n = 7 THEN 128 ELSE IF n = 8 THEN 256
           ELSE IF n = 9 THEN 512 ELSE IF n = 10 THEN 1024 ELSE 2048

ByteAt(b, i) == IF i <= Len(b) THEN b[i] ELSE 0

\* Unpadded base32 of a byte string: the c-th character (from 0) is the
\* 5-bit group that starts at bit 5c, the last group padded with zero bits.
Base32Encode(b) ==
  LET nchars == (Len(b) * 8 + 4) \div 5
      char(c) == LET bit == 5 * c
                     i   == bit \div 8 + 1
                     off == bit % 8
                     w   == ByteAt(b, i) * 256 + ByteAt(b, i + 1)
                 IN  (w \div Pow2(11 - off)) % 32
  IN  [c \in 1..nchars |-> Base32Alphabet[char(c - 1) + 1]]

\* ------------------------------------------------------------- BLAKE2b
\* golang.org/x/crypto/blake2b, the hash behind blake2b.NewXOF and
\* blake2b.New256.  A 64-bit word is a tuple of 8 bytes, least significant
\* byte first, so that no intermediate value leaves the 32-bit integers.

\* Exclusive or of two 4-bit values, bit by bit.
XorNibble ==
  [a \in 0..15 |-> [b \in 0..15 |->
     ((a + b) % 2)
     + 2 * (((a \div 2) + (b \div 2)) % 2)
     + 4 * (((a \div 4) + (b \div 4)) % 2)
     + 8 * (((a \div 8) + (b \div 8)) % 2)]]

Xor8(a, b) ==
  16 * XorNibble[a \div 16][b \div 16] + XorNibble[a % 16][b % 16]

Xor64(x, y) ==
  << Xor8(x[1], y[1]), Xor8(x[2], y[2]), Xor8(x[3], y[3]), Xor8(x[4], y[4]),
     Xor8(x[5], y[5]), Xor8(x[6], y[6]), Xor8(x[7], y[7]), Xor8(x[8], y[8]) >>

\* x + y modulo 2^64.
Add64(x, y) ==
  LET s1 == x[1] + y[1]
      s2 == x[2] + y[2] + (s1 \div 256)
      s3 == x[3] + y[3] + (s2 \div 256)
      s4 == x[4] + y[4] + (s3 \div 256)
      s5 == x[5] + y[5] + (s4 \div 256)
      s6 == x[6] + y[6] + (s5 \div 256)
      s7 == x[7] + y[7] + (s6 \div 256)
      s8 == x[8] + y[8] + (s7 \div 256)
  IN  << s1 % 256, s2 % 256, s3 % 256, s4 % 256,
         s5 % 256, s6 % 256, s7 % 256, s8 % 256 >>

\* x + y + z modulo 2^64.
Add64x3(x, y, z) ==
  LET s1 == x[1] + y[1] + z[1]
      s2 == x[2] + y[2] + z[2] + (s1 \div 256)
      s3 == x[3] + y[3] + z[3] + (s2 \div 256)
      s4 == x[4] + y[4] + z[4] + (s3 \div 256)
      s5 == x[5] + y[5] + z[5] + (s4 \div 256)
      s6 == x[6] + y[6] + z[6] + (s5 \div 256)
      s7 == x[7] + y[7] + z[7] + (s6 \div 256)
      s8 == x[8] + y[8] + z[8] + (s7 \div 256)
  IN  << s1 % 256, s2 % 256, s3 % 256, s4 % 256,
         s5 % 256, s6 % 256, s7 % 256, s8 % 256 >>

\* bits.RotateLeft64(x, -32), -24, -16 and -63.
RotR32(x) == << x[5], x[6], x[7], x[8], x[1], x[2], x[3], x[4] >>
RotR24(x) == << x[4], x[5], x[6], x[7], x[8], x[1], x[2], x[3] >>
RotR16(x) == << x[3], x[4], x[5], x[6], x[7], x[8], x[1], x[2] >>
RotR63(x) ==
  << ((2 * x[1]) % 256) + (x[8] \div 128), ((2 * x[2]) % 256) + (x[1] \div 128),
     ((2 * x[3]) % 256) + (x[2] \div 128), ((2 * x[4]) % 256) + (x[3] \div 128),
     ((2 * x[5]) % 256) + (x[4] \div 128), ((2 * x[6]) % 256) + (x[5] \div 128),
     ((2 * x[7]) % 256) + (x[6] \div 128), ((2 * x[8]) % 256) + (x[7] \div 128) >>

\* The little-endian word of a number below 2^31.
Word64(n) ==
  << n % 256, (n \div 256) % 256, (n \div 65536) % 256,
     (n \div 16777216) % 256, 0, 0, 0, 0 >>

ZeroWord == << 0, 0, 0, 0, 0, 0, 0, 0 >>
OnesWord == << 255, 255, 255, 255, 255, 255, 255, 255 >>

\* The initialisation vector iv.
blake2bIV ==
  << <<8, 201, 188, 243, 103, 230, 9, 106>>,
     <<59, 167, 202, 132, 133, 174, 103, 187>>,
     <<43, 248, 148, 254, 114, 243, 110, 60>>,
     <<241, 54, 29, 95, 58, 245, 79, 165>>,
     <<209, 130, 230, 173, 127, 82, 14, 81>>,
     <<31, 108, 62, 43, 140, 104, 5, 155>>,
     <<107, 189, 65, 251, 171, 217, 131, 31>>,
     <<121, 33, 126, 19, 25, 205, 224, 91>> >>

\* The message schedule of rounds 0..9 (rounds 10 and 11 reuse 0 and 1).
precomputed ==
  << <<0, 1, 2, 3, 4, 5, 6, 7, 8, 9, 10, 11, 12, 13, 14, 15>>,
     <<14, 10, 4, 8, 9, 15, 13, 6, 1, 12, 0, 2, 11, 7, 5, 3>>,
     <<11, 8, 12, 0, 5, 2, 15, 13, 10, 14, 3, 6, 7, 1, 9, 4>>,
     <<7, 9, 3, 1, 13, 12, 11, 14, 2, 6, 5, 10, 4, 0, 15, 8>>,
     <<9, 0, 5, 7, 2, 4, 10, 15, 14, 1, 11, 12, 6, 8, 3, 13>>,
     <<2, 12, 6, 10, 0, 11, 8, 3, 4, 13, 7, 5, 15, 14, 1, 9>>,
     <<12, 5, 1, 15, 14, 13, 4, 10, 0, 7, 6, 3, 9, 2, 8, 11>>,
     <<13, 11, 7, 14, 12, 1, 3, 9, 5, 0, 15, 4, 8, 6, 2, 10>>,
     <<6, 15, 14, 9, 11, 3, 0, 8, 12, 2, 13, 7, 1, 4, 10, 5>>,
     <<10, 2, 8, 4, 7, 6, 1, 5, 15, 11, 9, 14, 3, 12, 13, 0>> >>

\* The words (numbered from 0) that the eight mixing steps of a round work
\* on: the four columns, then the four diagonals.
MixWords ==
  << <<0, 4, 8, 12>>, <<1, 5, 9, 13>>, <<2, 6, 10, 14>>, <<3, 7, 11, 15>>,
     <<0, 5, 10, 15>>, <<1, 6, 11, 12>>, <<2, 7, 8, 13>>, <<3, 4, 9, 14>> >>

\* Statement j (from 0) of mixing step g (from 0) of a round with the
\* schedule row s: one of the words a, b, c, d of the step is updated, with
\* the message words x and y of the step.
MixStep(v, m, s, g, j) ==
  LET a == MixWords[g + 1][1] + 1
      b == MixWords[g + 1][2] + 1
      c == MixWords[g + 1][3] + 1
      d == MixWords[g + 1][4] + 1
      x == m[s[2 * g + 1] + 1]
      y == m[s[2 * g + 2] + 1]
  IN  CASE j = 0 -> [v EXCEPT ![a] = Add64x3(v[a], v[b], x)]
        [] j = 1 -> [v EXCEPT ![d] = RotR32(Xor64(v[d], v[a]))]
        [] j = 2 -> [v EXCEPT ![c] = Add64(v[c], v[d])]
        [] j = 3 -> [v EXCEPT ![b] = RotR24(Xor64(v[b], v[c]))]
        [] j = 4 -> [v EXCEPT ![a] = Add64x3(v[a], v[b], y)]
        [] j = 5 -> [v EXCEPT ![d] = RotR16(Xor64(v[d], v[a]))]
        [] j = 6 -> [v EXCEPT ![c] = Add64(v[c], v[d])]
        [] OTHER -> [v EXCEPT ![b] = RotR63(Xor64(v[b], v[c]))]

\* The statements j..7 of mixing step g, each applied to the value the one
\* before it has produced.
RECURSIVE Mix(_, _, _, _, _)
Mix(v, m, s, g, j) ==
  IF j = 8 THEN v
  ELSE CHOOSE r \in {Mix(w, m, s, g, j + 1) : w \in {MixStep(v, m, s, g, j)}} :
         TRUE

\* The mixing steps g..7 of a round.
RECURSIVE Round(_, _, _, _)
Round(v, m, s, g) ==
  IF g = 8 THEN v
  ELSE CHOOSE r \in {Round(w, m, s, g + 1) : w \in {Mix(v, m, s, g, 0)}} :
         TRUE

\* Rounds r..11.
RECURSIVE Rounds(_, _, _)
Rounds(v, m, r) ==
  IF r = 12 THEN v
  ELSE CHOOSE z \in {Rounds(w, m, r + 1) :
                       w \in {Round(v, m, precomputed[(r % 10) + 1], 0)}} :
         TRUE

\* The 16 message words of a 128-byte block.
BlockWords(block) ==
  [i \in 1..16 |-> [j \in 1..8 |-> block[8 * (i - 1) + j]]]

\* The working vector a block starts from.
StartVector(h, t, last) ==
  << h[1], h[2], h[3], h[4], h[5], h[6], h[7], h[8],
     blake2bIV[1], blake2bIV[2], blake2bIV[3], blake2bIV[4],
     Xor64(blake2bIV[5], Word64(t)), blake2bIV[6],
     IF last THEN Xor64(blake2bIV[7], OnesWord) ELSE blake2bIV[7],
     blake2bIV[8] >>

\* hashBlocks for one 128-byte block: h is the chaining value, t the number
\* of bytes hashed so far, last the finalisation flag.
Compress(h, block, t, last) ==
  CHOOSE out \in
    { << Xor64(Xor64(h[1], v[1]), v[9]),  Xor64(Xor64(h[2], v[2]), v[10]),
         Xor64(Xor64(h[3], v[3]), v[11]), Xor64(Xor64(h[4], v[4]), v[12]),
         Xor64(Xor64(h[5], v[5]), v[13]), Xor64(Xor64(h[6], v[6]), v[14]),
         Xor64(Xor64(h[7], v[7]), v[15]), Xor64(Xor64(h[8], v[8]), v[16]) >> :
      v \in { Rounds(v0, m, 0) :
                v0 \in {StartVector(h, t, last)},
                m \in {BlockWords(block)} } } : TRUE

BlockSize == 128

\* Write and finalize: every full block but the last is compressed as it
\* comes, the last one is padded with zeros and carries the final flag.
RECURSIVE Absorb(_, _, _)
Absorb(h, data, t) ==
  IF Len(data) > BlockSize
    THEN CHOOSE r \in
           { Absorb(g, SubSeq(data, BlockSize + 1, Len(data)), t + BlockSize) :
             g \in {Compress(h, SubSeq(data, 1, BlockSize),
                             t + BlockSize, FALSE)} } : TRUE
    ELSE Compress(h, [i \in 1..BlockSize |->
                        IF i <= Len(data) THEN data[i] ELSE 0],
                  t + Len(data), TRUE)

\* The parameter block: digest length, fanout, depth, leaf length, node
\* offset, XOF length and inner length; no key, salt or personalisation.
Config(size, fanout, depth, leaf, node, xofLen, inner) ==
  << << size, 0, fanout, depth, leaf % 256, (leaf \div 256) % 256, 0, 0 >>,
     << node % 256, (node \div 256) % 256, 0, 0,
        xofLen % 256, (xofLen \div 256) % 256, 0, 0 >>,
     << 0, inner, 0, 0, 0, 0, 0, 0 >>,
     ZeroWord, ZeroWord, ZeroWord, ZeroWord, ZeroWord >>

\* The chaining value a hash under the parameter block cfg starts from.
InitConfig(cfg) ==
  << Xor64(blake2bIV[1], cfg[1]), Xor64(blake2bIV[2], cfg[2]),
     Xor64(blake2bIV[3], cfg[3]), Xor64(blake2bIV[4], cfg[4]),
     Xor64(blake2bIV[5], cfg[5]), Xor64(blake2bIV[6], cfg[6]),
     Xor64(blake2bIV[7], cfg[7]), Xor64(blake2bIV[8], cfg[8]) >>

\* The digest of data under the parameter block cfg, cut to size bytes.
Blake2b(cfg, data, size) ==
  CHOOSE out \in
    { [i \in 1..size |-> h[((i - 1) \div 8) + 1][((i - 1) % 8) + 1]] :
      h \in { Absorb(h0, d, 0) : h0 \in {InitConfig(cfg)}, d \in {data} } } :
    TRUE

Size == 64

\* The output blocks from number node on: each is the digest of the root
\* under its node offset, 64 bytes long but for the last.
RECURSIVE XofBlocks(_, _, _, _)
XofBlocks(root, length, node, remaining) ==
  IF remaining = 0 THEN <<>>
  ELSE LET n == IF remaining < Size THEN remaining ELSE Size
       IN  Blake2b(Config(n, 0, 0, Size, node, length, Size), root, n)
           \o XofBlocks(root, length, node + 1, remaining - n)

\* xof.Read of n bytes after a Reset and a Write of absorbed, for the XOF
\* of the given output length: the root digest of the input, then the
\* first n bytes of the output blocks. The last block is sized by what
\* the XOF has left, not by what is asked for; no more than length bytes
\* are read.
Blake2Xb(absorbed, length, n) ==
  CHOOSE out \in
    { SubSeq(all, 1, IF n < length THEN n ELSE length) :
      all \in { XofBlocks(root, length, 0, length) :
        root \in {Blake2b(Config(Size, 1, 1, 0, 0, length, 0), absorbed, Size)} } } :
    TRUE

\* The byte strings an XOF of the model may hold: up to n message ids
\* written one after the other.
RECURSIVE IdStrings(_)
IdStrings(n) ==
  IF n = 0 THEN {<<>>}
  ELSE {p \o id : p \in IdStrings(n - 1), id \in MsgIds \cup {<<>>}}

\* A mailbox is scanned and fetched, so its XOF is written at most twice
\* per message.
XofInputs == IdStrings(2 * MaxMsgs)

\* The output of the XOF made by blake2b.NewXOF(keySize, nil) for each of
\* these inputs, computed once.
XofOutputs == [in \in XofInputs |-> Blake2Xb(in, keySize, keySize)]

\* What xof.Read(key) yields for a key of n bytes after the bytes absorbed
\* were written: at most keySize bytes.
XofSqueeze(absorbed, n) ==
  SubSeq(XofOutputs[absorbed], 1, IF n < keySize THEN n ELSE keySize)

\* Variant: the XOF is not reset, so it still holds what earlier calls
\* wrote.
fnNoReset(xofS, keyB, msgID) ==
  CHOOSE res \in
    { [ name |-> IF Len(out) # Len(keyB) THEN <<>>
                 ELSE Base32Encode(out \o SubSeq(keyB, Len(out) + 1, Len(keyB))),
        err  |-> (Len(out) # Len(keyB)),
        xof  |-> xofS \o msgID,
        key  |-> out \o SubSeq(keyB, Len(out) + 1, Len(keyB)) ] :
      out \in {XofSqueeze(xofS \o msgID, Len(keyB))} } : TRUE

\* fn: xof.Reset(); xof.Write(msgID); n := xof.Read(key); base32 of key.
\* Read fills the first n bytes of key with the output out; n # len(key) is
\* an error.  Returns the name, the error flag and the new contents of xof
\* and key.
fn(xofS, keyB, msgID) ==
  CHOOSE res \in
    { [ name |-> IF Len(out) # Len(keyB) THEN <<>>
                 ELSE Base32Encode(out \o SubSeq(keyB, Len(out) + 1, Len(keyB))),
        err  |-> (Len(out) # Len(keyB)),
        xof  |-> <<>> \o msgID,
        key  |-> out \o SubSeq(keyB, Len(out) + 1, Len(keyB)) ] :
      out \in {XofSqueeze(<<>> \o msgID, Len(keyB))} } : TRUE

ZeroKey == [i \in 1..keySize |-> 0]
\* The file name of a message id, as fn derives it from a fresh state.
NameOf(id) == fn(<<>>, ZeroKey, id).name
AllNames == {NameOf(id) : id \in MsgIds}

\* ---------------------------------------------------- messages on the server
\* Texts are byte strings; these are the ones the messages are made of.
TextP == <<80>>          \* "P"
TextM == <<109>>         \* "m"
TextH == <<104>>         \* "h"
TextSubject == <<60, 115, 62>>   \* "<s>"

\* A time.Time: seconds and nanoseconds of a fixed day, zone offset in
\* minutes east of UTC.
TimeOf(h, m, sec, nsec, off) ==
  [hour |-> h, min |-> m, sec |-> sec, nsec |-> nsec, off |-> off]

\* The envelope the server reports for the message with the given id in
\* mailbox mb.  The envelope is a function of the id and the mailbox, so
\* that the messages cover: no sender, a sender without and with a personal
\* name, a second sender, with and without In-Reply-To, whole and
\* fractional seconds, UTC and another zone.
EnvelopeOf(id, mb) ==
  [ MessageId |-> id,
    InReplyTo |-> IF id = <<>> THEN <<>> ELSE <<112>>,
    Date      |-> IF id = <<>> THEN TimeOf(15, 4, 5, 0, 0)
                  ELSE IF mb = "A" THEN TimeOf(9, 30, 0, 500000000, 120)
                  ELSE TimeOf(23, 59, 59, 1, -330),
    Subject   |-> IF id = <<>> THEN <<>> ELSE TextSubject,
    From      |-> IF id = <<>>
                    THEN IF mb = "A" THEN <<>>
                         ELSE << [PersonalName |-> <<>>, MailboxName |-> TextM,
                                  HostName |-> TextH] >>
                    ELSE << [PersonalName |-> TextP, MailboxName |-> TextM,
                             HostName |-> TextH],
                            [PersonalName |-> <<>>, MailboxName |-> TextH,
                             HostName |-> TextM] >> ]

\* The body the server streams for the message with the given id: an empty
\* body and a two-byte body.
BodyOf(id) == IF id = <<>> THEN <<>> ELSE <<104, 105>>

\* ------------------------------------------------------ building a record
\* blake2b.New256: digest size in bytes.
hashSize == 32

\* The BLAKE2b-256 digest of each body of the model, computed once.
BodyDigests ==
  [b \in {BodyOf(id) : id \in MsgIds} |->
     Blake2b(Config(hashSize, 1, 1, 0, 0, 0, 0), b, hashSize)]

\* bodyHasher.Sum(nil): the digest of the bytes written to the hasher since
\* its last Reset.
Sum256(absorbed) == BodyDigests[absorbed]

DigitChars == <<"0", "1", "2", "3", "4", "5", "6", "7", "8", "9">>

\* strconv.FormatInt(n, 10) for n >= 0: decimal digits, no leading zero.
RECURSIVE FormatInt(_)
FormatInt(n) ==
  IF n < 10 THEN <<DigitChars[n + 1]>>
  ELSE FormatInt(n \div 10) \o <<DigitChars[(n % 10) + 1]>>

\* n in exactly w decimal digits.
RECURSIVE PadInt(_, _)
PadInt(n, w) ==
  IF w = 0 THEN <<>> ELSE PadInt(n \div 10, w - 1) \o <<DigitChars[(n % 10) + 1]>>

\* Trailing "0" characters removed.
RECURSIVE TrimZeros(_)
TrimZeros(d) ==
  IF d # <<>> /\ d[Len(d)] = "0" THEN TrimZeros(SubSeq(d, 1, Len(d) - 1)) ELSE d

Abs(n) == IF n < 0 THEN -n ELSE n

\* t.Format(time.RFC3339Nano), layout "2006-01-02T15:04:05.999999999Z07:00":
\* the fraction without trailing zeros and omitted when zero, "Z" for UTC.
FormatRFC3339Nano(t) ==
  <<"2", "0", "2", "0", "-", "0", "1", "-", "0", "2", "T">>
  \o PadInt(t.hour, 2) \o <<":">> \o PadInt(t.min, 2) \o <<":">>
  \o PadInt(t.sec, 2)
  \o (IF t.nsec = 0 THEN <<>> ELSE <<".">> \o TrimZeros(PadInt(t.nsec, 9)))
  \o (IF t.off = 0 THEN <<"Z">>
      ELSE <<IF t.off < 0 THEN "-" ELSE "+">>
           \o PadInt(Abs(t.off) \div 60, 2) \o <<":">>
           \o PadInt(Abs(t.off) % 60, 2))

\* The From string (lines 186-194): "Name <mailbox@host>" or
\* "<mailbox@host>" of the first address, "" without any address.
FormatFrom(from) ==
  IF Len(from) > 0
    THEN LET f == from[1]
         IN  IF Len(f.PersonalName) > 0
               THEN f.PersonalName \o <<32, 60>> \o f.MailboxName \o <<64>>
                    \o f.HostName \o <<62>>
               ELSE <<60>> \o f.MailboxName \o <<64>> \o f.HostName \o <<62>>
    ELSE <<>>

\* The Header literal of lines 196-205.  InReplyTo is not among the fields
\* the literal sets, so it keeps the zero value "".
HeaderOf(name, env, folder, size, hash) ==
  [ Key       |-> name,
    MessageID |-> env.MessageId,
    InReplyTo |-> <<>>,
    Date      |-> FormatRFC3339Nano(env.Date),
    Folder    |-> folder,
    Subject   |-> env.Subject,
    From      |-> FormatFrom(env.From),
    Size      |-> FormatInt(size),
    Hash      |-> hash ]

\* ------------------------------------------------------------ the store
\* A file as os.WriteFile leaves it: the encoded header, then "---\n", then
\* the body bytes; kept as the header fields and the bytes after the
\* separator.
FileOf(h, body) ==
  [ Key |-> h.Key, MessageID |-> h.MessageID, InReplyTo |-> h.InReplyTo,
    Date |-> h.Date, Folder |-> h.Folder, Subject |-> h.Subject,
    From |-> h.From, Size |-> h.Size, Hash |-> h.Hash, Body |-> body ]

\* One pass of the body loop without failure (lines 171-216): both buffers
\* and the hasher are reset, the body is copied into bodyBuf through a
\* TeeReader that feeds the hasher, the header is built, and the header,
\* the separator and the contents of bodyBuf are put into buf; copying
\* bodyBuf into buf drains bodyBuf.  Returns the bytes of buf as a file and
\* what bodyBuf and the hasher hold afterwards.
Persist(hasherS, bodyBufS, msg, name, folder) ==
  LET bodyBuf0 == <<>>
      hasher0  == <<>>
      bodyBuf1 == bodyBuf0 \o msg.Body
      hasher1  == hasher0 \o msg.Body
      h == HeaderOf(name, msg.Envelope, folder, Len(bodyBuf1), Sum256(hasher1))
  IN  [ file |-> FileOf(h, bodyBuf1), bodyBuf |-> <<>>, hasher |-> hasher1 ]

\* A message as the body fetch delivers it.
BodyMsg(seq, id, mb) ==
  [SeqNum |-> seq, Envelope |-> EnvelopeOf(id, mb), Body |-> BodyOf(id)]

\* A message as the envelope fetch delivers it.
EnvMsg(seq, id, mb) == [SeqNum |-> seq, Envelope |-> EnvelopeOf(id, mb)]

\* A store left behind by earlier runs: one file per id of ids, as this
\* program wrote it when the message was in a mailbox named OldFolder.
OldStore(ids) ==
  [nm \in {NameOf(id) : id \in ids} |->
     LET id == CHOOSE i \in ids : NameOf(i) = nm
     IN  Persist(<<>>, <<>>, BodyMsg(1, id, OldFolder), nm, OldFolder).file]

\* Variant: the existence check looks in the wrong place and never finds
\* the file.
StatNeverExists(st, name) == {"notexist", "error"}

\* Variant: an I/O error on an existing file is reported as IsNotExist.
StatErrorAsMissing(st, name) ==
  IF name \in DOMAIN st THEN {"exists", "notexist"} ELSE {"notexist", "error"}

\* os.Stat(filepath.Join(w.Store, name)): nil when the file exists,
\* IsNotExist when it does not, or any other I/O error.
Stat(st, name) ==
  (IF name \in DOMAIN st THEN {"exists"} ELSE {"notexist"}) \cup {"error"}

\* os.WriteFile(fn, buf.Bytes(), 0600): creates or truncates the file.
WriteFile(st, name, data) ==
  [nm \in (DOMAIN st) \cup {name} |-> IF nm = name THEN data ELSE st[nm]]

\* A file of no bytes.
EmptyFile ==
  [ Key |-> <<>>, MessageID |-> <<>>, InReplyTo |-> <<>>, Date |-> <<>>,
    Folder |-> "", Subject |-> <<>>, From |-> <<>>, Size |-> <<>>,
    Hash |-> <<>>, Body |-> <<>> ]

\* What the bytes of data are cut to when writing stops early: nothing
\* (which also stands for a cut inside the header line), or the header, the
\* separator and the first k bytes of the body; all of them when only the
\* close failed.
TornFiles(data) ==
  {EmptyFile} \cup
  {[data EXCEPT !.Body = SubSeq(data.Body, 1, k)] : k \in 0..Len(data.Body)}

\* The stores a failed os.WriteFile may leave: the open failed and nothing
\* changed, or the file was created or truncated (O_CREATE|O_TRUNC) and
\* holds what was written before the failure.
WriteFileFailed(st, name, data) ==
  {st} \cup {WriteFile(st, name, t) : t \in TornFiles(data)}

\* ------------------------------------------------------------ the server
SeqsUpTo(S, n) == UNION {[1..k -> S] : k \in 0..n}

RECURSIVE SumLen(_, _)
SumLen(f, S) ==
  IF S = {} THEN 0
  ELSE LET x == CHOOSE y \in S : TRUE IN Len(f[x]) + SumLen(f, S \ {x})

\* What the listing may report: no mailbox, one, or two (the names are
\* interchangeable, so one order of the two is enough).
ListOrders == {<<>>, <<"A">>, <<"A", "B">>}

Range(q) == {q[i] : i \in 1..Len(q)}

\* Removing the message with sequence number i renumbers those after it.
RemoveAt(q, i) == [j \in 1..(Len(q) - 1) |-> IF j < i THEN q[j] ELSE q[j + 1]]

\* imap.SeqSet built by ss.AddNum(v) for each v: the server streams the
\* requested numbers in ascending order, each once.
RECURSIVE Ascending(_)
Ascending(S) ==
  IF S = {} THEN <<>>
  ELSE LET m == CHOOSE x \in S : \A y \in S : x <= y
       IN  <<m>> \o Ascending(S \ {m})

SeqSetOf(list) == Ascending(Range(list))

\* ------------------------------------------------------------- variables
VARIABLES
  ctx,        \* TRUE once the external context is cancelled
  pc,         \* position of the foreground goroutine in List / Iter
  result,     \* "none" while List runs, then the error List returned
  miList,     \* List: mailboxes collected from ch
  idx,        \* List: index of the mailbox of the range loop
  logouts,    \* number of c.Logout() calls made
  srvList,    \* server: mailbox names in listing order
  mbox,       \* server: messages (ids) of each mailbox, by sequence number
  envPlan,    \* server: how the envelope fetch of a mailbox ends once all
              \* its messages are streamed ("unset" until first decided)
  changed,    \* TRUE once a mailbox was changed during the runs
  store,      \* file name -> file contents
  store0,     \* the store when the current run started
  listP, listQ, listRes, listN,    \* listing goroutine, ch, errC value
  envP, envQ, envRes, envN,        \* envelope fetch goroutine, msgC
  bodyP, bodyQ, bodyRes, bodyTodo, \* body fetch goroutine, second msgC
  bodyN,      \* messages the body fetch has pushed into msgC
  msgList,    \* Iter: sequence numbers to fetch
  existCount, \* Iter: existCount
  xof, key,   \* Iter: the shared XOF and key buffer used by fn
  bodyBuf,    \* Iter: contents of bodyBuf
  bodyHasher, \* Iter: bytes written to bodyHasher since its last Reset
  derived,    \* <<message id, name>> of every call of fn in the current run
  trace,      \* session commands and file writes of the current run
  run,        \* number of the current run
  prevList,   \* mailboxes a previous error-free run went over
  cancelAt    \* where the foreground was when ctx was cancelled

srvVars   == <<srvList, mbox, envPlan, changed>>
listVars  == <<listP, listQ, listRes, listN>>
envVars   == <<envP, envQ, envRes, envN>>
bodyVars  == <<bodyP, bodyQ, bodyRes, bodyTodo, bodyN>>
iterVars  == <<msgList, existCount, xof, key, bodyBuf, bodyHasher>>
mainVars  == <<pc, result, miList, idx, logouts>>
storeVars == <<store, store0>>
histVars  == <<trace, run, prevList, cancelAt, derived>>
vars == <<ctx, mainVars, srvVars, storeVars, listVars, envVars, bodyVars,
          iterVars, histVars>>

\* The mailbox Iter is working on.
cur == miList[idx]

NoCancel == [pc |-> "none", idx |-> 0]

Event(op, mb, arg) == [op |-> op, mb |-> mb, arg |-> arg]

\* State of a run before List is called.
RunStart ==
  /\ ctx = FALSE
  /\ pc = "start" /\ result = "none" /\ miList = <<>> /\ idx = 0
  /\ logouts = 0
  /\ listP = "idle" /\ listQ = <<>> /\ listRes = "ok" /\ listN = 0
  /\ envP = "idle" /\ envQ = <<>> /\ envRes = "ok" /\ envN = 0
  /\ bodyP = "idle" /\ bodyQ = <<>> /\ bodyRes = "ok" /\ bodyTodo = <<>>
  /\ bodyN = 0
  /\ msgList = <<>> /\ existCount = 0 /\ xof = <<>> /\ key = ZeroKey
  /\ bodyBuf = <<>> /\ bodyHasher = <<>>
  /\ trace = <<>> /\ cancelAt = NoCancel /\ derived = {}

Init ==
  /\ RunStart
  /\ run = 1 /\ prevList = <<>> /\ changed = FALSE
  /\ srvList \in ListOrders
  /\ mbox \in [MailboxNames -> SeqsUpTo(MsgIds, MaxMsgs)]
  /\ SumLen(mbox, MailboxNames) <= MaxMsgs
  /\ \A m \in MailboxNames \ Range(srvList) : mbox[m] = <<>>
  /\ envPlan = [m \in MailboxNames |-> "unset"]
  /\ \E ids \in SUBSET MsgIds : store = OldStore(ids)
  /\ store0 = store

\* ------------------------------------------------------------ Worker.List
\* A return of List after "defer c.Logout()" was registered (line 45).
Return(r) ==
  /\ pc' = "done" /\ result' = r /\ logouts' = logouts + 1

\* client.DialTLS (lines 37-40).
Dial ==
  /\ pc = "start"
  /\ \/ pc' = "login" /\ UNCHANGED result
     \/ pc' = "done" /\ result' = "dial"
  /\ UNCHANGED <<ctx, miList, idx, logouts, srvVars, storeVars, listVars,
                 envVars, bodyVars, iterVars, histVars>>

\* c.Login and the start of the listing goroutine (lines 42-54).
Login ==
  /\ pc = "login"
  /\ \/ /\ pc' = "listDrain" /\ listP' = "run"
        /\ UNCHANGED result
     \/ /\ pc' = "done" /\ result' = "login"
        /\ UNCHANGED listP
  /\ UNCHANGED <<ctx, miList, idx, logouts, srvVars, storeVars, listQ,
                 listRes, listN, envVars, bodyVars, iterVars, histVars>>

\* c.List("*", "*", ch): one mailbox pushed into ch.
ListPush ==
  /\ listP = "run"
  /\ listN < Len(srvList)
  /\ Len(listQ) < ChanCap
  /\ listQ' = Append(listQ, srvList[listN + 1])
  /\ listN' = listN + 1
  /\ UNCHANGED <<ctx, mainVars, srvVars, storeVars, listP, listRes, envVars,
                 bodyVars, iterVars, histVars>>

\* c.List returns: ch is closed and the result is offered on errC.  The
\* command succeeds after the whole list or fails at any point.
ListClose ==
  /\ listP = "run"
  /\ \/ listN = Len(srvList) /\ listRes' = "ok"
     \/ listRes' = "err"
  /\ listP' = "closed"
  /\ UNCHANGED <<ctx, mainVars, srvVars, storeVars, listQ, listN, envVars,
                 bodyVars, iterVars, histVars>>

\* Variant: the mailbox received is put in front of the list.
ListRecvPrepend ==
  /\ pc = "listDrain"
  /\ listQ # <<>>
  /\ miList' = <<Head(listQ)>> \o miList
  /\ listQ' = Tail(listQ)
  /\ UNCHANGED <<ctx, pc, result, idx, logouts, srvVars, storeVars, listP,
                 listRes, listN, envVars, bodyVars, iterVars, histVars>>

\* for mi := range ch { miList = append(miList, mi) } (lines 55-57).
ListRecv ==
  /\ pc = "listDrain"
  /\ listQ # <<>>
  /\ miList' = Append(miList, Head(listQ))
  /\ listQ' = Tail(listQ)
  /\ UNCHANGED <<ctx, pc, result, idx, logouts, srvVars, storeVars, listP,
                 listRes, listN, envVars, bodyVars, iterVars, histVars>>

\* The range loop over ch ends: ch is closed and empty.
ListDrained ==
  /\ pc = "listDrain"
  /\ listQ = <<>> /\ listP # "run"
  /\ pc' = "listSel"
  /\ UNCHANGED <<ctx, result, miList, idx, logouts, srvVars, storeVars,
                 listVars, envVars, bodyVars, iterVars, histVars>>

\* select { case <-ctx.Done(): case err := <-errC: ... } (lines 58-64).
\* The Done case has an empty body: control falls into the range loop.
ListSelect ==
  /\ pc = "listSel"
  /\ \/ /\ ctx
        /\ pc' = "loop" /\ idx' = 1
        /\ UNCHANGED <<result, logouts, listP>>
     \/ /\ listP = "closed"
        /\ listP' = "done"
        /\ IF listRes # "ok"
             THEN Return("list") /\ UNCHANGED idx
             ELSE pc' = "loop" /\ idx' = 1 /\ UNCHANGED <<result, logouts>>
  /\ UNCHANGED <<ctx, miList, srvVars, storeVars, listQ, listRes, listN,
                 envVars, bodyVars, iterVars, histVars>>

\* Head of "for _, mi := range miList" with the ctx.Err() check, and the
\* final "return c.Logout()" (lines 66-69, 75).
ListLoop ==
  /\ pc = "loop"
  /\ IF idx > Len(miList)
       THEN /\ pc' = "done"
            /\ \E r \in {"nil", "logout"} : result' = r
            /\ logouts' = logouts + 2
       ELSE IF ctx
         THEN Return("canceled")
         ELSE pc' = "iter" /\ UNCHANGED <<result, logouts>>
  /\ UNCHANGED <<ctx, miList, idx, srvVars, storeVars, listVars, envVars,
                 bodyVars, iterVars, histVars>>

\* ------------------------------------------------------------ Worker.Iter
\* Iter returned nil: the range loop of List moves to the next mailbox.
IterNil ==
  /\ pc' = "loop" /\ idx' = idx + 1 /\ UNCHANGED <<result, logouts>>

\* Iter returned err: List returns fmt.Errorf("iter: %w", err).
IterErr(e) == Return(e) /\ UNCHANGED idx

\* c.Select(mi.Name, true), the locals of Iter and the start of the
\* envelope fetch goroutine (lines 79-107).
IterSelect ==
  /\ pc = "iter"
  /\ \/ /\ pc' = "scanDrain"
        /\ trace' = Append(Append(trace, Event("select", cur, <<>>)),
                           Event("fetchEnv", cur, <<>>))
        /\ UNCHANGED <<result, logouts>>
        /\ msgList' = <<>> /\ existCount' = 0
        /\ xof' = <<>> /\ key' = ZeroKey
        /\ bodyBuf' = <<>> /\ bodyHasher' = <<>>
        /\ envP' = "run" /\ envQ' = <<>> /\ envRes' = "ok" /\ envN' = 0
        /\ bodyP' = "idle" /\ bodyQ' = <<>> /\ bodyRes' = "ok"
        /\ bodyTodo' = <<>> /\ bodyN' = 0
     \/ /\ Return("iter: select")
        /\ trace' = Append(trace, Event("select", cur, <<>>))
        /\ UNCHANGED <<iterVars, envVars, bodyVars>>
  /\ UNCHANGED <<ctx, miList, idx, srvVars, storeVars, listVars, run,
                 prevList, cancelAt, derived>>

\* c.Fetch("1:*", {Envelope, Uid}, msgC): the next message of the mailbox.
EnvPush ==
  /\ envP = "run"
  /\ envN < Len(mbox[cur])
  /\ Len(envQ) < ChanCap
  /\ envQ' = Append(envQ, EnvMsg(envN + 1, mbox[cur][envN + 1], cur))
  /\ envN' = envN + 1
  /\ UNCHANGED <<ctx, mainVars, srvVars, storeVars, listVars, envP, envRes,
                 bodyVars, iterVars, histVars>>

\* The envelope fetch returns: msgC is closed, the result is offered on
\* fetchErr.  After the whole mailbox the server answers OK or "No matching
\* messages" (the same answer whenever the mailbox is fetched again); a
\* failure may end the command at any point.
EnvClose ==
  /\ envP = "run"
  /\ \/ /\ envN = Len(mbox[cur])
        /\ \E r \in {"ok", "nomatch"} :
             /\ envPlan[cur] \in {"unset", r}
             /\ envRes' = r
             /\ envPlan' = [envPlan EXCEPT ![cur] = r]
     \/ /\ envRes' = "err"
        /\ UNCHANGED envPlan
  /\ envP' = "closed"
  /\ UNCHANGED <<ctx, mainVars, srvList, mbox, changed, storeVars, listVars,
                 envQ, envN, bodyVars, iterVars, histVars>>

\* Body of "for msg := range msgC" of the scan (lines 108-124).
ScanRecv ==
  /\ pc = "scanDrain"
  /\ envQ # <<>>
  /\ \E msg \in {Head(envQ)} :
     \E d \in {fn(xof, key, msg.Envelope.MessageId)} :
         /\ envQ' = Tail(envQ)
         /\ xof' = d.xof /\ key' = d.key
         /\ derived' = derived \cup {<<msg.Envelope.MessageId, d.name>>}
         /\ IF d.err
              THEN IterErr("iter: fn") /\ UNCHANGED <<msgList, existCount>>
              ELSE \E st \in Stat(store, d.name) :
                     CASE st = "exists" ->
                            /\ existCount' = existCount + 1
                            /\ UNCHANGED <<msgList, mainVars>>
                       [] st = "notexist" ->
                            /\ msgList' = Append(msgList, msg.SeqNum)
                            /\ UNCHANGED <<existCount, mainVars>>
                       [] OTHER ->
                            /\ IterErr("iter: store stat")
                            /\ UNCHANGED <<msgList, existCount>>
  /\ UNCHANGED <<ctx, miList, srvVars, storeVars, listVars, envP, envRes,
                 envN, bodyVars, bodyBuf, bodyHasher, trace, run, prevList,
                 cancelAt>>

\* The scan loop ends: msgC is closed and empty.
ScanDrained ==
  /\ pc = "scanDrain"
  /\ envQ = <<>> /\ envP # "run"
  /\ pc' = "scanSel"
  /\ UNCHANGED <<ctx, result, miList, idx, logouts, srvVars, storeVars,
                 listVars, envVars, bodyVars, iterVars, histVars>>

\* Goroutines blocked on "fetchErr <- ..." (both fetches share fetchErr).
FetchErrSenders ==
  (IF envP = "closed" THEN {"env"} ELSE {}) \cup
  (IF bodyP = "closed" THEN {"body"} ELSE {})

FetchErrValue(p) == IF p = "env" THEN envRes ELSE bodyRes

\* Variant: a received result stays in the channel.
FetchErrTakenKept(p) ==
  /\ envP' = envP
  /\ bodyP' = IF p = "body" THEN "done" ELSE bodyP

\* The sender p has handed over its result.
FetchErrTaken(p) ==
  /\ envP' = IF p = "env" THEN "done" ELSE envP
  /\ bodyP' = IF p = "body" THEN "done" ELSE bodyP

\* Variant: a failed envelope fetch is treated like a successful one.
ScanOutcomeIgnoreErr(res, n) ==
  CASE res = "nomatch" -> "nil"
    [] OTHER           -> IF n = 0 THEN "nil" ELSE "body"

\* Variant: "No matching messages" is treated like a successful fetch.
ScanOutcomeNoMatchAsOk(res, n) ==
  CASE res = "err" -> "fail"
    [] OTHER       -> IF n = 0 THEN "nil" ELSE "body"

\* Variant: the body fetch is issued even when msgList is empty.
ScanOutcomeAlwaysBody(res, n) ==
  CASE res = "err"     -> "fail"
    [] res = "nomatch" -> "nil"
    [] OTHER           -> "body"

\* What Iter does with the value received from fetchErr after the scan and
\* with len(msgList) (lines 129-146): return the error, return nil, or go
\* on to the body fetch.
ScanOutcome(res, n) ==
  CASE res = "err"     -> "fail"
    [] res = "nomatch" -> "nil"
    [] OTHER           -> IF n = 0 THEN "nil" ELSE "body"

\* What Iter does with the value received from fetchErr after the body
\* loop (lines 228-234): any non-nil error is returned.
BodyOutcome(res) == IF res # "ok" THEN "fail" ELSE "nil"

\* The rendezvous after the scan and the "nothing to do" test
\* (lines 125-146).
ScanSelect ==
  /\ pc = "scanSel"
  /\ \/ /\ ctx
        /\ IterErr("iter: canceled")
        /\ UNCHANGED <<envP, bodyP>>
     \/ \E p \in FetchErrSenders :
          /\ FetchErrTaken(p)
          /\ LET o == ScanOutcome(FetchErrValue(p), Len(msgList))
             IN  CASE o = "fail" -> IterErr("iter: fetch")
                   [] o = "nil"  -> IterNil
                   [] OTHER      -> /\ pc' = "bodyStart"
                                    /\ UNCHANGED <<result, idx, logouts>>
  /\ UNCHANGED <<ctx, miList, srvVars, storeVars, listVars, envQ, envRes,
                 envN, bodyQ, bodyRes, bodyTodo, bodyN, iterVars, histVars>>

\* Another client expunges message i of the selected mailbox between the
\* two fetches; the messages after it are renumbered.
Expunge ==
  /\ pc = "bodyStart"
  /\ \E i \in 1..Len(mbox[cur]) :
       mbox' = [mbox EXCEPT ![cur] = RemoveAt(mbox[cur], i)]
  /\ changed' = TRUE
  /\ UNCHANGED <<ctx, mainVars, srvList, envPlan, storeVars, listVars,
                 envVars, bodyVars, iterVars, histVars>>

\* The sequence set, the second msgC and the start of the body fetch
\* goroutine (lines 148-168).
BodyStart ==
  /\ pc = "bodyStart"
  /\ pc' = "bodyDrain"
  /\ bodyP' = "run" /\ bodyQ' = <<>> /\ bodyRes' = "ok" /\ bodyN' = 0
  /\ bodyTodo' = SeqSetOf(msgList)
  /\ trace' = Append(trace, Event("fetchBody", cur, Range(msgList)))
  /\ UNCHANGED <<ctx, result, miList, idx, logouts, srvVars, storeVars,
                 listVars, envVars, iterVars, run, prevList, cancelAt,
                 derived>>

\* c.Fetch(ss, {Envelope, BODY[]}, msgC): the server streams the message
\* that now has the next requested sequence number, if there is one.
BodyPush ==
  /\ bodyP = "run"
  /\ bodyTodo # <<>>
  /\ Len(bodyQ) < ChanCap
  /\ LET s == Head(bodyTodo)
     IN  IF s <= Len(mbox[cur])
           THEN /\ bodyQ' = Append(bodyQ, BodyMsg(s, mbox[cur][s], cur))
                /\ bodyN' = bodyN + 1
           ELSE UNCHANGED <<bodyQ, bodyN>>
  /\ bodyTodo' = Tail(bodyTodo)
  /\ UNCHANGED <<ctx, mainVars, srvVars, storeVars, listVars, envVars,
                 bodyP, bodyRes, iterVars, histVars>>

\* The body fetch returns: msgC is closed, the result is offered on
\* fetchErr.
BodyClose ==
  /\ bodyP = "run"
  /\ \/ bodyTodo = <<>> /\ bodyRes' \in {"ok", "nomatch"}
     \/ bodyRes' = "err"
  /\ bodyP' = "closed"
  /\ UNCHANGED <<ctx, mainVars, srvVars, storeVars, listVars, envVars,
                 bodyQ, bodyTodo, bodyN, iterVars, histVars>>

\* Body of "for msg := range msgC" of the body phase (lines 170-223):
\* derive the name, read the body, build the header, write the file.
BodyRecv ==
  /\ pc = "bodyDrain"
  /\ bodyQ # <<>>
  /\ \E msg \in {Head(bodyQ)} :
     \E d \in {fn(xof, key, msg.Envelope.MessageId)} :
     \E r \in {Persist(bodyHasher, bodyBuf, msg, d.name, cur)} :
         /\ bodyQ' = Tail(bodyQ)
         /\ xof' = d.xof /\ key' = d.key
         /\ derived' = derived \cup {<<msg.Envelope.MessageId, d.name>>}
         /\ IF d.err
              THEN /\ IterErr("iter: fn")
                   /\ UNCHANGED <<store, trace, bodyBuf, bodyHasher>>
              ELSE \E io \in {"ok", "hash body", "write"} :
                     CASE io = "ok" ->
                            /\ store' = WriteFile(store, d.name, r.file)
                            /\ trace' = Append(trace, Event("write", cur, d.name))
                            /\ bodyBuf' = r.bodyBuf /\ bodyHasher' = r.hasher
                            /\ UNCHANGED mainVars
                       [] io = "write" ->
                            /\ IterErr("iter: write")
                            /\ store' \in WriteFileFailed(store, d.name, r.file)
                            /\ bodyBuf' = r.bodyBuf /\ bodyHasher' = r.hasher
                            /\ UNCHANGED trace
                       [] OTHER ->
                            \* the body reader fails after k bytes
                            /\ IterErr("iter: hash body")
                            /\ \E k \in 0..Len(msg.Body) :
                                 /\ bodyBuf' = SubSeq(msg.Body, 1, k)
                                 /\ bodyHasher' = SubSeq(msg.Body, 1, k)
                            /\ UNCHANGED <<store, trace>>
  /\ UNCHANGED <<ctx, miList, srvVars, store0, listVars, envVars, bodyP,
                 bodyRes, bodyTodo, bodyN, msgList, existCount, run, prevList,
                 cancelAt>>

\* Variant: the body loop also ends as soon as the context is cancelled.
BodyDrainedOrCancelled ==
  /\ pc = "bodyDrain"
  /\ \/ bodyQ = <<>> /\ bodyP # "run"
     \/ ctx
  /\ pc' = "bodySel"
  /\ UNCHANGED <<ctx, result, miList, idx, logouts, srvVars, storeVars,
                 listVars, envVars, bodyVars, iterVars, histVars>>

\* The body loop ends: msgC is closed and empty.
BodyDrained ==
  /\ pc = "bodyDrain"
  /\ bodyQ = <<>> /\ bodyP # "run"
  /\ pc' = "bodySel"
  /\ UNCHANGED <<ctx, result, miList, idx, logouts, srvVars, storeVars,
                 listVars, envVars, bodyVars, iterVars, histVars>>

\* The rendezvous after the body loop (lines 224-234).
BodySelect ==
  /\ pc = "bodySel"
  /\ \/ /\ ctx
        /\ IterErr("iter: canceled")
        /\ UNCHANGED <<envP, bodyP>>
     \/ \E p \in FetchErrSenders :
          /\ FetchErrTaken(p)
          /\ IF BodyOutcome(FetchErrValue(p)) = "fail"
               THEN IterErr(IF FetchErrValue(p) = "nomatch"
                              THEN "iter: nomatch" ELSE "iter: err")
               ELSE IterNil
  /\ UNCHANGED <<ctx, miList, srvVars, storeVars, listVars, envQ, envRes,
                 envN, bodyQ, bodyRes, bodyTodo, bodyN, iterVars, histVars>>

\* ------------------------------------------------------------ environment
\* Where the foreground is before it has received the listing's result.
BeforeListResult == {"start", "login", "listDrain", "listSel"}

\* The part of List the foreground was in when the context was cancelled.
CancelPhase(p) ==
  IF p \in BeforeListResult THEN "listing"
  ELSE IF p = "bodyDrain" THEN "bodyDrain"
  ELSE "later"

\* The caller cancels the context passed to List.
Cancel ==
  /\ ~ctx
  /\ pc # "done"
  /\ ctx' = TRUE
  /\ cancelAt' = [pc |-> CancelPhase(pc),
                  idx |-> IF pc = "bodyDrain" THEN idx ELSE 0]
  /\ UNCHANGED <<mainVars, srvVars, storeVars, listVars, envVars, bodyVars,
                 iterVars, trace, run, prevList, derived>>

\* After a run that returned nil, List is called again with a fresh
\* context against the same store and the same, unchanged mailboxes.
Rerun ==
  /\ pc = "done" /\ result = "nil"
  /\ ~changed
  /\ run < MaxRuns
  /\ run' = run + 1
  /\ prevList' = miList
  /\ store0' = store
  /\ ctx' = FALSE
  /\ pc' = "start" /\ result' = "none" /\ miList' = <<>> /\ idx' = 0
  /\ logouts' = 0
  /\ listP' = "idle" /\ listQ' = <<>> /\ listRes' = "ok" /\ listN' = 0
  /\ envP' = "idle" /\ envQ' = <<>> /\ envRes' = "ok" /\ envN' = 0
  /\ bodyP' = "idle" /\ bodyQ' = <<>> /\ bodyRes' = "ok" /\ bodyTodo' = <<>>
  /\ bodyN' = 0
  /\ msgList' = <<>> /\ existCount' = 0 /\ xof' = <<>> /\ key' = ZeroKey
  /\ bodyBuf' = <<>> /\ bodyHasher' = <<>>
  /\ trace' = <<>> /\ cancelAt' = NoCancel /\ derived' = {}
  /\ UNCHANGED <<srvVars, store>>

Next ==
  \/ Dial \/ Login
  \/ ListPush \/ ListClose \/ ListRecv \/ ListDrained \/ ListSelect
  \/ ListLoop \/ IterSelect
  \/ EnvPush \/ EnvClose \/ ScanRecv \/ ScanDrained \/ ScanSelect
  \/ Expunge \/ BodyStart
  \/ BodyPush \/ BodyClose \/ BodyRecv \/ BodyDrained \/ BodySelect
  \/ Cancel \/ Rerun

Spec == Init /\ [][Next]_vars

\* ================================================================ claims
IsWrite(e) == e.op = "write"
IsBodyFetch(e) == e.op = "fetchBody"
IsSelect(e) == e.op = "select"
\* File writes, body fetches and selects of the current run, in order.
Writes == SelectSeq(trace, IsWrite)
BodyFetches == SelectSeq(trace, IsBodyFetch)
Selects == SelectSeq(trace, IsSelect)
\* Events of the current run that belong to mailbox m.
EventsOf(m) == {i \in 1..Len(trace) : trace[i].mb = m}

\* The current run follows an error-free run over the same, unchanged
\* mailboxes.
SecondRun ==
  /\ run >= 2
  /\ ~changed
  /\ Range(miList) \subseteq Range(prevList)

\* Iter is in, or has just finished, the scan of a mailbox.
InScan ==
  \/ pc \in {"scanDrain", "scanSel"}
  \/ pc \in {"loop", "iter"} /\ idx > 1 /\ bodyP = "idle"

\* C1 as stated: in a run that follows an error-free run over the same
\* unchanged mailboxes no file is written, no body fetch is issued and in
\* every mailbox existCount equals the number of messages the envelope
\* stream delivered (and the scan has consumed).
C1_Original ==
  SecondRun =>
    /\ Writes = <<>>
    /\ BodyFetches = <<>>
    /\ InScan => existCount + Len(envQ) = envN

\* C1 (amended): in a run that follows an error-free run over the same
\* unchanged mailboxes no file is written and no body fetch is issued, and
\* in every mailbox whose envelope stream does not end with "No matching
\* messages" existCount equals the number of messages the envelope stream
\* delivered and nothing is pending.
C1_Idempotent ==
  SecondRun =>
    /\ Writes = <<>>
    /\ BodyFetches = <<>>
    /\ store = store0
    /\ pc \in {"scanDrain", "scanSel"} /\ envPlan[cur] # "nomatch" =>
         /\ existCount + Len(envQ) = envN
         /\ msgList = <<>>

\* A second run has finished the scan of a mailbox whose messages the
\* first run had to download, and counted them all as existing.
C1_Witness ==
  /\ SecondRun
  /\ pc = "scanSel" /\ envP = "closed" /\ envRes = "ok"
  /\ existCount = envN /\ envN >= 1
  /\ \E nm \in DOMAIN store0 : store0[nm].Folder = cur

\* C2 as stated: within one run no file name is written twice.
C2_WrittenOnce ==
  \A i, j \in 1..Len(Writes) : Writes[i].arg = Writes[j].arg => i = j

\* C3 as stated: every file written in the body phase of a mailbox has a
\* name that did not exist in the store when the run started.
C3_NoOverwrite ==
  \A i \in 1..Len(Writes) : Writes[i].arg \notin DOMAIN store0

\* Mailbox m has had no body fetch and no write in the current run: its
\* only events are its select and its envelope fetch.
OnlySelected(m, tr) ==
  \A i \in 1..Len(tr) : tr[i].mb = m => tr[i].op \in {"select", "fetchEnv"}

\* C4: once the envelope fetch of a mailbox has ended with an error other
\* than "No matching messages", Iter never reaches the body phase and never
\* moves on: no body fetch and no write is made for that mailbox, the store
\* is as it was when the mailbox was selected, and when List has returned
\* its result is an error.
C4_EnvelopeError ==
  (envP \in {"closed", "done"} /\ envRes = "err") =>
    /\ pc \in {"scanDrain", "scanSel", "done"}
    /\ OnlySelected(cur, trace)
    /\ bodyP = "idle"
    /\ pc = "done" => result \notin {"none", "nil"}

\* List has returned the error of an envelope fetch that failed after it
\* had streamed a message which the scan found missing from the store.
C4_Witness ==
  /\ pc = "done" /\ result = "iter: fetch"
  /\ envP = "done" /\ envRes = "err"
  /\ envN >= 1 /\ msgList # <<>>

\* C5 as stated: when the value received at the rendezvous after the body
\* loop is "No matching messages", Iter returns nil and List goes on to
\* the next mailbox.
C5_BodyNoMatchIsNil ==
  [][ (pc = "bodySel" /\ bodyP = "closed" /\ bodyRes = "nomatch"
         /\ bodyP' = "done")
      => (pc' = "loop" /\ idx' = idx + 1 /\ result' = "none") ]_vars

\* C6: when the value received at the rendezvous after the scan is "No
\* matching messages", Iter returns nil: List moves to the next element of
\* miList with no error, no body fetch is started and nothing is written,
\* also when msgList is not empty.
C6_EnvelopeNoMatch ==
  [][ (pc = "scanSel" /\ envP = "closed" /\ envRes = "nomatch"
         /\ envP' = "done")
      => /\ pc' = "loop" /\ idx' = idx + 1 /\ result' = "none"
         /\ bodyP' = "idle"
         /\ store' = store
         /\ trace' = trace /\ OnlySelected(cur, trace) ]_vars

\* Iter has returned nil for a mailbox whose envelope fetch ended with "No
\* matching messages" after a message was found missing from the store;
\* List then selected the next mailbox.
C6_Witness ==
  /\ envP = "run" /\ idx = 2
  /\ envPlan[miList[1]] = "nomatch"
  /\ mbox[miList[1]] # <<>>
  /\ \E id \in Range(mbox[miList[1]]) : NameOf(id) \notin DOMAIN store
  /\ OnlySelected(miList[1], trace)
  /\ Len(Selects) = 2

\* Errors that wrap context.Canceled.
CancelErrors == {"canceled", "iter: canceled"}

\* C7 as stated: if the context was cancelled while the body loop of a
\* mailbox was running, List does not return nil and selects no mailbox
\* after that one.
C7_CancelMidBodyDrain ==
  (pc = "done" /\ cancelAt.pc = "bodyDrain") =>
    /\ result # "nil"
    /\ Len(Selects) = cancelAt.idx

\* Number of files written for mailbox m in the current run.
WritesOf(m) == Cardinality({i \in 1..Len(trace) :
                              trace[i].mb = m /\ trace[i].op = "write"})

\* C8: List returns a cancellation error only from the range loop head of
\* List, or from a rendezvous of Iter reached with the queue closed and
\* empty, when every message the producer pushed has been consumed: counted
\* or appended in the scan, written to the store in the body phase.
C8_CancelOnlyAfterDrain ==
  [][ (result = "none" /\ result' \in CancelErrors) =>
        \/ pc = "loop" /\ result' = "canceled"
        \/ /\ pc = "scanSel" /\ envQ = <<>> /\ envP # "run"
           /\ existCount + Len(msgList) = envN
        \/ /\ pc = "bodySel" /\ bodyQ = <<>> /\ bodyP # "run"
           /\ WritesOf(cur) = bodyN ]_vars

\* List has returned a cancellation error although the cancellation came
\* while two messages of the body stream were still to be consumed; both
\* were written.
C8_Witness ==
  /\ pc = "done" /\ result = "iter: canceled"
  /\ cancelAt.pc = "bodyDrain"
  /\ bodyN = 2 /\ WritesOf(cur) = 2

\* C9 as stated: if the listing failed, or the context was cancelled before
\* the listing's result was received, List returns an error and selects no
\* mailbox.
C9_ListingFailsClosed ==
  (pc = "done" /\ (listRes = "err" \/ cancelAt.pc = "listing")) =>
    /\ result # "nil"
    /\ Selects = <<>>

\* Position of mailbox m in miList.
Pos(m) == CHOOSE i \in 1..Len(miList) : miList[i] = m

InIter == pc \in {"scanDrain", "scanSel", "bodyStart", "bodyDrain", "bodySel"}

IterErrors == {"iter: select", "iter: fn", "iter: store stat", "iter: fetch",
               "iter: canceled", "iter: hash body", "iter: write",
               "iter: err", "iter: nomatch"}

\* The mailboxes selected so far are the first ones of miList, in order,
\* each once; miList is what the listing delivered, in order; the events of
\* one mailbox are not interleaved with those of another; a mailbox whose
\* Iter failed is the last one selected.
C10_Order ==
  /\ miList \o listQ = SubSeq(srvList, 1, listN)
  /\ Len(Selects) <= Len(miList)
  /\ \A i \in 1..Len(Selects) : Selects[i].mb = miList[i]
  /\ \A i, j \in 1..Len(trace) : i < j => Pos(trace[i].mb) <= Pos(trace[j].mb)
  /\ InIter => Len(Selects) = idx
  /\ pc \in {"loop", "iter"} => Len(Selects) = idx - 1
  /\ (pc = "done" /\ result \in IterErrors) => Len(Selects) = idx

\* C10: mailboxes are selected one after another in listing order and
\* processing stops at the first one that fails; once List has returned no
\* command is issued and nothing is written, and a file once in the store
\* stays there.
C10_InOrderStopAtFirstError ==
  /\ []C10_Order
  /\ [][ pc = "done" /\ run' = run => trace' = trace /\ store' = store ]_vars
  /\ [][ DOMAIN store \subseteq DOMAIN store' ]_vars

\* Of two listed mailboxes the first failed after one of its files was
\* written; the second was never selected and the file is in the store.
C10_Witness ==
  /\ pc = "done" /\ result = "iter: write"
  /\ Len(miList) = 2 /\ idx = 1
  /\ Len(Selects) = 1
  /\ Len(Writes) = 1 /\ Writes[1].arg \in DOMAIN store

DigitValue(c) == CHOOSE v \in 0..9 : DigitChars[v + 1] = c

\* The number a decimal string denotes.
RECURSIVE ParseDecimal(_)
ParseDecimal(d) ==
  IF d = <<>> THEN 0
  ELSE ParseDecimal(SubSeq(d, 1, Len(d) - 1)) * 10 + DigitValue(d[Len(d)])

\* C11 as stated: every file of the store reads back consistently: Size is
\* the length of the bytes stored after the separator, Hash is the digest of
\* exactly those bytes, and they are the body the server streams for the
\* message the file names, whatever was persisted before it with the same
\* buffers and hasher.
C11_FilesConsistent ==
  \A nm \in DOMAIN store :
    LET f == store[nm]
    IN  /\ ParseDecimal(f.Size) = Len(f.Body)
        /\ f.Hash = Sum256(f.Body)
        /\ f.Body = BodyOf(f.MessageID)

\* The name a fresh XOF and key buffer give for each message id.
FreshName == [id \in MsgIds |-> NameOf(id)]

\* C12: every name fn has returned in this run, in the scan or in the body
\* phase, is the name a fresh XOF and key buffer give for the same message
\* id, so one id never has two names.
C12_KeyDeterministic ==
  /\ \A p \in derived : p[2] = FreshName[p[1]]
  /\ \A p, q \in derived : p[1] = q[1] => p[2] = q[2]
  /\ \A i \in 1..Len(Writes) :
       \E p \in derived : p[2] = Writes[i].arg

\* fn was called for both ids in the scan and then again in the body phase
\* for the id it had derived first.
C12_Witness ==
  /\ Cardinality(derived) = 2
  /\ Len(msgList) = 2
  /\ Len(Writes) = 1
  /\ xof # mbox[cur][Len(mbox[cur])]
  /\ ~changed

\* The mailbox whose body loop last wrote the file called nm in this run.
LastWriter(nm) ==
  LET last == CHOOSE i \in 1..Len(Writes) :
                /\ Writes[i].arg = nm
                /\ \A j \in 1..Len(Writes) : Writes[j].arg = nm => j <= i
  IN  Writes[last].mb

\* The display form of an address.
Display(a) ==
  (IF a.PersonalName = <<>> THEN <<>> ELSE a.PersonalName \o <<32>>)
  \o <<60>> \o a.MailboxName \o <<64>> \o a.HostName \o <<62>>

\* C13 as stated: every record written in this run carries the metadata of
\* the message it was built from: Key is the name derived from the id;
\* MessageID, InReplyTo, Date and Subject are those of the envelope; Folder
\* is the mailbox being processed; From is the first sender only, empty
\* without a sender.
C13_RecordMetadata ==
  \A i \in 1..Len(Writes) :
    LET f == store[Writes[i].arg]
        e == EnvelopeOf(f.MessageID, f.Folder)
    IN  /\ f.Key = Writes[i].arg /\ f.Key = NameOf(f.MessageID)
        /\ f.Folder = LastWriter(f.Key)
        /\ f.InReplyTo = e.InReplyTo
        /\ f.Date = FormatRFC3339Nano(e.Date)
        /\ f.Subject = e.Subject
        /\ f.From = IF e.From = <<>> THEN <<>> ELSE Display(e.From[1])

\* The number of messages the scan loop has taken out of msgC so far.
Consumed == envN - Len(envQ)

\* C14: while the scan of a mailbox has met no error, every message taken
\* from the envelope stream is counted in existCount exactly when a file
\* named by its key exists, and has its sequence number in msgList exactly
\* when no such file exists; existCount plus len(msgList) is the number of
\* messages taken, msgList is in stream order; a stat that fails otherwise
\* ends the run with an error and no write for the mailbox.
C14_ScanPartition ==
  /\ pc \in {"scanDrain", "scanSel"} =>
       /\ existCount + Len(msgList) = Consumed
       /\ \A i, j \in 1..Len(msgList) : i < j => msgList[i] < msgList[j]
       /\ Range(msgList) \subseteq 1..Consumed
       /\ \A s \in 1..Consumed :
            (s \in Range(msgList)) =
              (FreshName[mbox[cur][s]] \notin DOMAIN store)
       /\ existCount =
            Cardinality({s \in 1..Consumed :
                           FreshName[mbox[cur][s]] \in DOMAIN store})
  /\ result = "iter: store stat" =>
       pc = "done" /\ OnlySelected(cur, trace)

\* A scan has ended without error after a message whose file exists and a
\* message whose file is missing.
C14_Witness ==
  /\ pc = "scanSel" /\ envRes = "ok" /\ envP = "closed"
  /\ Consumed = 2
  /\ existCount = 1
  /\ msgList = <<2>>

\* The positions in the trace of the commands op issued for mailbox m.
CmdIdx(m, op) ==
  {i \in 1..Len(trace) : trace[i].mb = m /\ trace[i].op = op}

\* C15: per mailbox and run there is at most one select, one envelope fetch
\* and one body fetch, in this order, and a mailbox Iter has finished has had
\* its select and its envelope fetch; a body fetch exists only when the
\* envelope fetch's result was received as success and msgList is not
\* empty, its id set is the set of the numbers in msgList, and no select
\* lies between the envelope fetch and the body fetch.
C15_TwoPhase ==
  /\ \A m \in MailboxNames :
       LET sel  == CmdIdx(m, "select")
           env  == CmdIdx(m, "fetchEnv")
           body == CmdIdx(m, "fetchBody")
       IN  /\ Cardinality(sel) <= 1
           /\ Cardinality(env) <= 1
           /\ Cardinality(body) <= 1
           /\ \A e \in env : e - 1 \in sel
           /\ \A b \in body :
                /\ trace[b].arg # {}
                /\ \E e \in env :
                     /\ e < b
                     /\ \A j \in e..b : trace[j].op # "select"
  /\ \A k \in 1..Len(miList) :
       k < idx => /\ Cardinality(CmdIdx(miList[k], "select")) = 1
                  /\ Cardinality(CmdIdx(miList[k], "fetchEnv")) = 1
  /\ pc \in {"bodyStart", "bodyDrain", "bodySel"} =>
       /\ envP = "done" /\ envRes = "ok"
       /\ msgList # <<>>
  /\ pc \in {"bodyDrain", "bodySel"} =>
       /\ BodyFetches # <<>>
       /\ BodyFetches[Len(BodyFetches)].mb = cur
       /\ BodyFetches[Len(BodyFetches)].arg = Range(msgList)

\* A mailbox whose first message was already stored has been finished with
\* a body fetch for its second message alone.
C15_Witness ==
  /\ idx = 2 /\ pc = "loop"
  /\ CmdIdx(miList[1], "select") = {1}
  /\ CmdIdx(miList[1], "fetchEnv") = {2}
  /\ CmdIdx(miList[1], "fetchBody") = {3}
  /\ trace[3].arg = {2}

\* C16 as stated: when List has returned, no producer is left blocked on
\* sending its terminal result (its queue closed, its result not received).
C16_ProducersTerminate ==
  pc = "done" => listP # "closed" /\ envP # "closed" /\ bodyP # "closed"

\* A session command is issued in this step: a select, a fetch or a logout.
CommandIssued ==
  \/ logouts' > logouts
  \/ /\ Len(trace') > Len(trace)
     /\ trace'[Len(trace')].op # "write"

\* C17 as stated: no select, fetch or logout is issued while the producer
\* of an earlier listing or fetch has not closed its queue.
C17_OneCommandAtATime ==
  [][ CommandIssued =>
        listP # "run" /\ envP # "run" /\ bodyP # "run" ]_vars

\* C18: the body fetch is started only after the envelope fetch's result
\* has been received, so at most one result waits on fetchErr; what the
\* body rendezvous receives is the body fetch's result and decides the
\* outcome; a result that was received is not received again.
C18_BodyRendezvous ==
  /\ [](/\ bodyP # "idle" => envP = "done"
        /\ Cardinality(FetchErrSenders) <= 1)
  /\ [][ /\ (pc = "bodySel" /\ pc' # "bodySel"
               /\ result' # "iter: canceled") =>
              /\ bodyP = "closed" /\ bodyP' = "done" /\ envP' = envP
              /\ (pc' = "loop") = (bodyRes = "ok")
         /\ envP = "done" => envP' \in {"done", "run", "idle"}
         /\ bodyP = "done" => bodyP' \in {"done", "idle"} ]_vars

\* The envelope fetch ended with success, the body fetch with an error, and
\* the body rendezvous has returned the body fetch's error.
C18_Witness ==
  /\ pc = "done" /\ result = "iter: err"
  /\ envP = "done" /\ envRes = "ok"
  /\ bodyP = "done" /\ bodyRes = "err"

\* C19 as stated: once the connection is established, the session has been
\* logged out exactly once when List has returned.
C19_LogoutOnce ==
  pc = "done" /\ result # "dial" => logouts = 1
====
